---- MODULE Spec2Model ----
(***************************************************************************)
(* Model of the replay-data lambda (src/lambda/index.mjs): the request     *)
(* handler, its cache (S3) and query engine (Athena) collaborators, and    *)
(* the pure helpers it calls.                                              *)
(*                                                                         *)
(* Representation of JavaScript values                                     *)
(*   - a query cell is a string (VarCharValue); integers in cells are      *)
(*     their decimal text (ToStr), and Number() parses that text;          *)
(*   - integer-valued JS numbers are TLA+ integers;                        *)
(*   - platform heights are decimal numbers (27.44186047 does not fit a    *)
(*     scaled 32-bit integer), so a height is represented by its           *)
(*     canonical JS rendering, a string: Number("20.0") is "20";           *)
(*   - NaN is "NaN" and JSON null is "null", in the fields the code        *)
(*     always computes as Number(undefined);                               *)
(*   - a request field is a tagged value: undefined, string or number.     *)
(***************************************************************************)
EXTENDS Integers, Sequences, FiniteSets, TLC

VARIABLES
    req,            \* the request body's fields: matchId, frameStart, frameEnd, and the method
    db,             \* the tables the query engine reads (environment, fixed in a run)
    env,            \* environment: whether the cache store / query engine may fail, whether
                    \* the engine may answer a poll QUEUED or RUNNING, and how many
                    \* invocations of the request arrive
    cache,          \* the cache bucket: a set of [key, body] entries, one per key
    pc,             \* per invocation: the call it is suspended at ("idle" before it starts,
                    \* "done" once it returned)
    seen,           \* per invocation: the invocations that had returned when it started
    cached,         \* per invocation: the object GetObject delivered, until its body is read
    q,              \* per invocation: which of the five queries is running (1..5)
    qstate,         \* per invocation: runAthenaQuery's local `state`
    polls,          \* per invocation: number of GetQueryExecution polls of the running query
    res,            \* per invocation: the query results obtained so far
    replayData,     \* per invocation: the assembled snapshot (None until built)
    response,       \* per invocation: the handler's return value (None while running)
    trace,          \* per invocation: what it did: cache reads, submits, fetches, puts
    rsChanges, rsFrame, rsDefault, rsHeight, rsDone, \* getPlatformHeightAtFrame applied to drawn inputs
    pfRow, pfPlayer, pfDone,                         \* players.push({...}) applied to a drawn frame row
    ckA, ckB, ckKeys, ckDone                         \* getReplayCacheKey applied to two drawn requests

handlerVars == <<req, db, env, cache, pc, seen, cached, q, qstate, polls, res, replayData,
                 response, trace>>
resolveVars == <<rsChanges, rsFrame, rsDefault, rsHeight, rsDone>>
playerVars == <<pfRow, pfPlayer, pfDone>>
keyVars == <<ckA, ckB, ckKeys, ckDone>>
pureVars == <<resolveVars, playerVars, keyVars>>
vars == <<handlerVars, pureVars>>

(***************************************************************************)
(* Bounds of the model                                                     *)
(***************************************************************************)
MaxPolls == 2        \* polls answered QUEUED/RUNNING before the engine must settle
MaxRequests == 2     \* invocations of one request, which may overlap
MaxChanges == 3      \* length of the change lists drawn for getPlatformHeightAtFrame

(***************************************************************************)
(* JavaScript values and conversions                                       *)
(***************************************************************************)
None == [t |-> "none"]
Undefined == [t |-> "undefined"]
Str(s) == [t |-> "string", s |-> s]
Num(n) == [t |-> "number", n |-> n]
NaN == "NaN"
Null == "null"

NumRange == -20 .. 120

Digit == <<"0", "1", "2", "3", "4", "5", "6", "7", "8", "9">>

RECURSIVE ToStr(_)
\* String(n) / template interpolation of an integer: its decimal text.
ToStr(n) ==
    IF n < 0 THEN "-" \o ToStr(-n)
    ELSE IF n < 10 THEN Digit[n + 1]
    ELSE ToStr(n \div 10) \o Digit[(n % 10) + 1]

DecimalText == [n \in NumRange |-> ToStr(n)]

\* Number(cell) for an integer cell: parses the decimal text; Number('') is 0.
Number(s) ==
    IF s = "" THEN 0 ELSE CHOOSE n \in NumRange : DecimalText[n] = s

\* Number(cell) for a decimal cell (platform_height), as its canonical rendering:
\* "20.0" is 20, whose rendering is "20"; '' is 0.
NumberDec(s) ==
    IF s = "" THEN "0"
    ELSE IF \E n \in NumRange : DecimalText[n] \o ".0" = s
         THEN DecimalText[CHOOSE n \in NumRange : DecimalText[n] \o ".0" = s]
         ELSE s

\* !v for a request field.
Falsy(v) ==
    \/ v.t = "undefined"
    \/ (v.t = "string" /\ v.s = "")
    \/ (v.t = "number" /\ v.n = 0)

\* `${v}` for a request field.
Interp(v) ==
    CASE v.t = "string" -> v.s
      [] v.t = "number" -> ToStr(v.n)
      [] OTHER -> "undefined"

\* A typed column value as the cell the engine returns.
BoolCell(b) == IF b THEN "true" ELSE "false"

\* !cell for a string cell: only the empty string is falsy.
NotCell(cell) == cell = ""

IsDigits(s) == \A i \in 1 .. Len(s) : \E d \in DOMAIN Digit : Digit[d] = SubSeq(s, i, i)

RECURSIVE ParseDigits(_)
\* The value of a text of decimal digits.
ParseDigits(s) ==
    IF Len(s) = 0 THEN 0
    ELSE 10 * ParseDigits(SubSeq(s, 1, Len(s) - 1))
         + ((CHOOSE d \in DOMAIN Digit : Digit[d] = SubSeq(s, Len(s), Len(s))) - 1)

\* ToInt32(cell), the conversion `cell & mask` applies to its left operand, for the
\* cells of an unsigned column: '' is 0 and a text that is no number is NaN, hence 0.
ToInt32(cell) == IF IsDigits(cell) THEN ParseDigits(cell) ELSE 0

RECURSIVE BitAnd(_, _)
\* a & b for non-negative a and b.
BitAnd(a, b) ==
    IF a = 0 \/ b = 0 THEN 0
    ELSE ((a % 2) * (b % 2)) + 2 * BitAnd(a \div 2, b \div 2)

\* Boolean(n) for a number.
Boolean(n) == n # 0

(***************************************************************************)
(* Sequences                                                               *)
(***************************************************************************)
RECURSIVE SelectSeq2(_, _)
\* Array.prototype.filter with a predicate given as the set of kept elements.
SelectSeq2(s, keep) ==
    IF s = <<>> THEN <<>>
    ELSE IF Head(s) \in keep THEN <<Head(s)>> \o SelectSeq2(Tail(s), keep)
    ELSE SelectSeq2(Tail(s), keep)

RECURSIVE InsertStable(_, _, _)
\* Insert x (with key k[x]) after every element whose key is <= its own.
InsertStable(sorted, x, key) ==
    IF sorted = <<>> THEN <<x>>
    ELSE IF key[Head(sorted)] <= key[x]
         THEN <<Head(sorted)>> \o InsertStable(Tail(sorted), x, key)
         ELSE <<x>> \o sorted

RECURSIVE SortStable(_, _)
\* Array.prototype.sort((a, b) => key(a) - key(b)): a stable sort by ascending key.
SortStable(s, key) ==
    IF s = <<>> THEN <<>>
    ELSE InsertStable(SortStable(SubSeq(s, 1, Len(s) - 1), key), s[Len(s)], key)

Range(s) == {s[i] : i \in DOMAIN s}

(***************************************************************************)
(* The query engine's view of the tables, and the five queries             *)
(***************************************************************************)
RECURSIVE OrderBy(_, _)
\* Every sequence that lists the rows of S by ascending key (ORDER BY key ASC);
\* rows with equal keys come in any order.  A constant key gives every order,
\* which is what a query without ORDER BY may return.
OrderBy(S, key) ==
    IF S = {} THEN {<<>>}
    ELSE LET least == {r \in S : \A o \in S : key[r] <= key[o]}
         IN  UNION {{<<r>> \o t : t \in OrderBy(S \ {r}, key)} : r \in least}

\* WHERE frame BETWEEN ${frameStart} AND ${frameEnd}
Between(n, fs, fe) == fs.n <= n /\ n <= fe.n

MatchSettingsCells(r) ==
    [replayFormatVersion |-> r.slippi_version, startTimeStamp |-> r.match_id,
     stageId |-> ToStr(r.stage), timerStart |-> ToStr(r.timer),
     frameCount |-> ToStr(r.frame_count)]

MatchSettingsQuery(matchId) ==
    LET Sel == {r \in db.settings : r.match_id = Interp(matchId)}
    IN  {[i \in DOMAIN s |-> MatchSettingsCells(s[i])] : s \in OrderBy(Sel, [r \in Sel |-> 0])}

PlayerSettingsCells(r) ==
    [playerIndex |-> ToStr(r.player_index), port |-> ToStr(r.port),
     externalCharacterId |-> ToStr(r.ext_char), playerType |-> ToStr(r.player_type),
     nametag |-> r.player_tag, displayName |-> r.player_tag, connectCode |-> r.slippi_code]

PlayerSettingsQuery(matchId) ==
    LET Sel == {r \in db.players : r.match_id = Interp(matchId)}
    IN  {[i \in DOMAIN s |-> PlayerSettingsCells(s[i])] : s \in OrderBy(Sel, [r \in Sel |-> 0])}

FrameCells(r) ==
    [match_id |-> r.match_id, frame_number |-> ToStr(r.frame_number),
     player_index |-> ToStr(r.player_index), follower |-> BoolCell(r.follower),
     buttons |-> ToStr(r.buttons), airborne |-> BoolCell(r.airborne),
     alive |-> BoolCell(r.alive)]

\* SELECT * FROM frames WHERE match_id = .. AND frame_number BETWEEN .. ORDER BY frame_number ASC
FramesQuery(matchId, frameStart, frameEnd) ==
    LET Sel == {r \in db.frames : /\ r.match_id = Interp(matchId)
                                  /\ Between(r.frame_number, frameStart, frameEnd)}
    IN  {[i \in DOMAIN s |-> FrameCells(s[i])] : s \in OrderBy(Sel, [r \in Sel |-> r.frame_number])}

ItemCells(r) ==
    [frameNumber |-> ToStr(r.frame), typeId |-> ToStr(r.item_type),
     spawnId |-> ToStr(r.spawn_id), isChargeShotLaunched |-> ToStr(r.is_launched)]

\* SELECT frame as frameNumber, .. FROM items WHERE match_id = .. AND frame BETWEEN ..   (no ORDER BY)
ItemsQuery(matchId, frameStart, frameEnd) ==
    LET Sel == {r \in db.items : /\ r.match_id = Interp(matchId)
                                 /\ Between(r.frame, frameStart, frameEnd)}
    IN  {[i \in DOMAIN s |-> ItemCells(s[i])] : s \in OrderBy(Sel, [r \in Sel |-> 0])}

PlatformCells(r) ==
    [match_id |-> r.match_id, frame |-> ToStr(r.frame), platform |-> ToStr(r.platform),
     platform_height |-> r.platform_height]

\* A variant of the platforms query with the in-range changes only (no boundary
\* lookup before the range).
PlatformsQueryInRangeOnly(matchId, frameStart, frameEnd) ==
    LET Sel == {r \in db.platforms : /\ r.match_id = Interp(matchId)
                                     /\ Between(r.frame, frameStart, frameEnd)}
    IN  {[i \in DOMAIN s |-> PlatformCells(s[i])] : s \in OrderBy(Sel, [r \in Sel |-> r.frame])}

\* The in-range changes UNION ALL, per side, the most recent change before the
\* range (ORDER BY frame DESC LIMIT 1), the whole ORDER BY frame.
PlatformsQuery(matchId, frameStart, frameEnd) ==
    LET Mine == {r \in db.platforms : r.match_id = Interp(matchId)}
        InRange == {r \in Mine : Between(r.frame, frameStart, frameEnd)}
        Before(side) == {r \in Mine : r.platform = side /\ r.frame < frameStart.n}
        Latest(side) == {r \in Before(side) : \A o \in Before(side) : o.frame <= r.frame}
        Limit1(side) == IF Latest(side) = {} THEN {{}} ELSE {{r} : r \in Latest(side)}
        Rows == UNION {{InRange \cup a \cup b : b \in Limit1(1)} : a \in Limit1(0)}
    IN  UNION {{[i \in DOMAIN s |-> PlatformCells(s[i])] : s \in OrderBy(Sel, [r \in Sel |-> r.frame])}
               : Sel \in Rows}

\* What GetQueryResults can return for the handler's n-th query, as row objects.
QueryResults(n) ==
    CASE n = 1 -> MatchSettingsQuery(req.matchId)
      [] n = 2 -> PlayerSettingsQuery(req.matchId)
      [] n = 3 -> FramesQuery(req.matchId, req.frameStart, req.frameEnd)
      [] n = 4 -> ItemsQuery(req.matchId, req.frameStart, req.frameEnd)
      [] OTHER -> PlatformsQuery(req.matchId, req.frameStart, req.frameEnd)

(***************************************************************************)
(* Pure helpers of index.mjs                                               *)
(***************************************************************************)
getReplayCacheKey(matchId, frameStart, frameEnd) ==
    "replays/" \o Interp(matchId) \o "-" \o Interp(frameStart) \o "-" \o Interp(frameEnd) \o ".json"

RECURSIVE ScanChangesStrict(_, _, _)
ScanChangesStrict(changes, currentFrame, height) ==
    IF changes = <<>> THEN height
    ELSE IF Number(Head(changes).frame) >= Number(currentFrame) THEN height
    ELSE ScanChangesStrict(Tail(changes), currentFrame, NumberDec(Head(changes).platform_height))

\* A variant of getPlatformHeightAtFrame that stops at a change of the current frame
\* itself (>= for >).
getPlatformHeightBeforeFrame(changes, currentFrame, defaultHeight) ==
    LET height == ScanChangesStrict(changes, currentFrame, Null)
    IN  IF height # Null THEN height ELSE defaultHeight

RECURSIVE ScanChanges(_, _, _)
\* The for-loop of getPlatformHeightAtFrame: height is the value tracked so far.
ScanChanges(changes, currentFrame, height) ==
    IF changes = <<>> THEN height
    ELSE IF Number(Head(changes).frame) > Number(currentFrame) THEN height
    ELSE ScanChanges(Tail(changes), currentFrame, NumberDec(Head(changes).platform_height))

getPlatformHeightAtFrame(changes, currentFrame, defaultHeight) ==
    LET height == ScanChanges(changes, currentFrame, Null)
    IN  IF height # Null THEN height ELSE defaultHeight

(***************************************************************************)
(* Assembly (the synchronous code of the handler between its awaits)       *)
(***************************************************************************)
LeftPlatform == 1
RightPlatform == 0
LeftFallback == "20"              \* 20.0
RightFallback == "27.44186047"

\* The static defaults of defaults.mjs.
matchSettingsDefaults ==
    [isTeams |-> FALSE, isPal |-> FALSE, isFrozenStadium |-> FALSE, platform |-> "dolphin",
     consoleNickname |-> "slippi", timerType |-> "counting down",
     characterUiPlacesCount |-> 0, gameType |-> "stock", friendlyFireOn |-> TRUE,
     isBreakTheTargetsOrTitleDemo |-> FALSE, isClassicOrAdventureMode |-> FALSE,
     isHomeRunContestOrEventMatch |-> FALSE, isSingleButtonMode |-> FALSE,
     timerCountsDuringPause |-> FALSE, bombRain |-> FALSE, itemSpawnRate |-> "off",
     selfDestructScoreValue |-> 0, damageRatio |-> 1]
playerSettingsDefaults ==
    [startStocks |-> 4, costumeIndex |-> 1, teamShade |-> 1, handicap |-> 0, teamId |-> 1,
     staminaMode |-> FALSE, silentCharacter |-> FALSE, lowGravity |-> FALSE,
     invisible |-> FALSE, blackStockIcon |-> FALSE, metal |-> FALSE,
     startGameOnWarpPlatform |-> FALSE, rumbleEnabled |-> FALSE, cpuLevel |-> 1,
     offenseRatio |-> 1, defenseRatio |-> 1, modelScale |-> 1, controllerFix |-> "UCF",
     internalCharacterIds |-> <<>>]
playerStateDefaults ==
    [isReflectActive |-> FALSE, isFastfalling |-> FALSE, isShieldActive |-> FALSE,
     isHittingShield |-> FALSE, isPowershieldActive |-> FALSE, isOffscreen |-> FALSE]
itemStateDefaults == [damageTaken |-> 0, expirationTimer |-> 0]
gameEndingDefaults == [gameEndMethod |-> "GAME!", oldGameEndMethod |-> "resolved", quitInitiator |-> 0]

\* { ...a, ...b }: the keys of both, b's value where both have the key.
Spread(a, b) ==
    [k \in DOMAIN a \cup DOMAIN b |-> IF k \in DOMAIN b THEN b[k] ELSE a[k]]

\* Number(row.k) for a row of cells: Number(undefined), NaN, when the row has no k.
NumberField(row, k) == IF k \in DOMAIN row THEN Number(row[k]) ELSE NaN

\* { ...matchSettingsResults, frameCount: Number(..), stage: Number(..), timer: Number(..) },
\* before the defaults are spread: the query has no `stage` or `timer` column, so both
\* are Number(undefined).
MatchSettingsComputed(row) ==
    Spread(row, [frameCount |-> NumberField(row, "frameCount"),
                 stage |-> NumberField(row, "stage"),
                 timer |-> NumberField(row, "timer")])

MatchSettingsOf(row) == Spread(MatchSettingsComputed(row), matchSettingsDefaults)

\* { ...player, playerIndex: Number(..), port: Number(..), externalCharacterId: Number(..),
\*   playerType: Number(..) }, before the defaults are spread.
PlayerSettingsComputed(player) ==
    Spread(player, [playerIndex |-> NumberField(player, "playerIndex"),
                    port |-> NumberField(player, "port"),
                    externalCharacterId |-> NumberField(player, "externalCharacterId"),
                    playerType |-> NumberField(player, "playerType")])

PlayerSettingsOf(player) == Spread(PlayerSettingsComputed(player), playerSettingsDefaults)

\* The keys of the records the four default sets are spread into: the columns of the
\* two settings queries and the keys the handler writes, and every key the handler
\* writes into a player's state and into an item.
MatchSettingsKeys ==
    {"replayFormatVersion", "startTimeStamp", "stageId", "timerStart", "frameCount",
     "stage", "timer"}
PlayerSettingsKeys ==
    {"playerIndex", "port", "externalCharacterId", "playerType", "nametag", "displayName",
     "connectCode"}
PlayerStateKeys ==
    {"frameNumber", "playerIndex", "isNana", "internalCharacterId", "actionStateId",
     "xPosition", "yPosition", "facingDirection", "percent", "shieldSize",
     "lastHittingAttackId", "currentComboCount", "lastHitBy", "stocksRemaining",
     "actionStateFrameCounter", "hitstunRemaining", "isGrounded", "lastGroundId",
     "jumpsRemaining", "lCancelStatus", "hurtboxCollisionState", "selfInducedAirXSpeed",
     "selfInducedAirYSpeed", "attackBasedXSpeed", "attackBasedYSpeed",
     "selfInducedGroundXSpeed", "hitlagRemaining", "isInHitstun", "isDead"}
ItemKeys ==
    {"matchId", "frameNumber", "typeId", "state", "facingDirection", "xVelocity",
     "yVelocity", "xPosition", "yPosition", "spawnId", "samusMissileType",
     "peachTurnipFace", "isChargedShotLaunched", "chargeShotLevel", "owner"}

RECURSIVE GroupFramesPerRow(_, _)
\* A variant of the grouping loop without the groupedFrames.has(f) test: every row
\* opens a group.
GroupFramesPerRow(framesResult, groups) ==
    IF framesResult = <<>> THEN groups
    ELSE GroupFramesPerRow(Tail(framesResult),
                           Append(groups, [key |-> Head(framesResult).frame_number,
                                            rows |-> <<Head(framesResult)>>]))

RECURSIVE GroupFrames(_, _)
\* The loop that fills groupedFrames: a Map keeps its keys in insertion order, so the
\* groups are a sequence of [key, rows]; a row joins the group of its frame_number cell.
GroupFrames(framesResult, groups) ==
    IF framesResult = <<>> THEN groups
    ELSE LET frame == Head(framesResult)
             f == frame.frame_number
             has == \E i \in DOMAIN groups : groups[i].key = f
             with == IF has THEN groups ELSE Append(groups, [key |-> f, rows |-> <<>>])
             at == CHOOSE i \in DOMAIN with : with[i].key = f
         IN  GroupFrames(Tail(framesResult),
                         [with EXCEPT ![at].rows = Append(@, frame)])

\* The button attributes of inputs.physical and the mask each is tested with.
PhysicalMasks ==
    [dPadLeft |-> 1, dPadRight |-> 2, dPadDown |-> 4, dPadUp |-> 8, z |-> 16,
     rTriggerDigital |-> 32, lTriggerDigital |-> 64, a |-> 256, b |-> 512, x |-> 1024,
     y |-> 2048, start |-> 4096]

\* The button attributes of inputs.processed and the mask each is tested with.
ProcessedMasks ==
    [dPadLeft |-> 1, dPadRight |-> 2, dPadDown |-> 4, dPadUp |-> 8, z |-> 16,
     rTriggerDigital |-> 32, lTriggerDigital |-> 64, a |-> 256, b |-> 512, x |-> 1024,
     y |-> 2048, start |-> 4096]

\* A variant of the physical view that tests `start` with 0x2000.
PhysicalOfShiftedStart(frame) ==
    [k \in DOMAIN PhysicalMasks |->
        Boolean(BitAnd(ToInt32(frame.buttons), IF k = "start" THEN 8192 ELSE PhysicalMasks[k]))]

\* physical: { k: Boolean(frame.buttons & mask), .. } (the button attributes).
PhysicalOf(frame) ==
    [k \in DOMAIN PhysicalMasks |-> Boolean(BitAnd(ToInt32(frame.buttons), PhysicalMasks[k]))]

\* processed: { k: Boolean(frame.buttons & mask), .. } (the button attributes).
ProcessedOf(frame) ==
    [k \in DOMAIN ProcessedMasks |-> Boolean(BitAnd(ToInt32(frame.buttons), ProcessedMasks[k]))]

\* state: { frameNumber: .., .., isDead: !frame.alive } before the defaults are spread
\* (the keys derived from the modelled columns).
PlayerStateComputed(frame) ==
    [frameNumber |-> Number(frame.frame_number),
     playerIndex |-> Number(frame.player_index),
     isNana |-> (frame.follower = "true"),
     isGrounded |-> NotCell(frame.airborne),
     isDead |-> NotCell(frame.alive)]

\* players.push({...}) for one row of the group.
PlayerOf(frame) ==
    [frameNumber |-> Number(frame.frame_number),
     playerIndex |-> Number(frame.player_index),
     inputs |-> [frameNumber |-> Number(frame.frame_number),
                 playerIndex |-> Number(frame.player_index),
                 isNana |-> (frame.follower = "true"),
                 physical |-> PhysicalOf(frame),
                 processed |-> ProcessedOf(frame)],
     state |-> Spread(PlayerStateComputed(frame), playerStateDefaults)]

\* The players of a group: one entry per row, then players.sort by playerIndex.
PlayersOf(frameGroup) ==
    LET pushed == [i \in DOMAIN frameGroup |-> PlayerOf(frameGroup[i])]
    IN  SortStable(pushed, [p \in Range(pushed) |-> p.playerIndex])

\* items.push({...}) for one item row: the query has no matchId column and names the
\* launched flag isChargeShotLaunched, so matchId is undefined and
\* isChargedShotLaunched is Number(undefined).
ItemComputed(itemFrame) ==
    [matchId |-> IF "matchId" \in DOMAIN itemFrame THEN Str(itemFrame.matchId) ELSE Undefined,
     frameNumber |-> NumberField(itemFrame, "frameNumber"),
     typeId |-> NumberField(itemFrame, "typeId"),
     spawnId |-> NumberField(itemFrame, "spawnId"),
     isChargedShotLaunched |-> NumberField(itemFrame, "isChargedShotLaunched")]

\* A variant of items.push({...}) whose default set also names spawnId.
ItemOfCollidingDefault(itemFrame) ==
    Spread(ItemComputed(itemFrame), Spread(itemStateDefaults, [spawnId |-> 0]))

\* items.push({ matchId: .., .., ...itemStateDefaults }) (the keys derived from the
\* modelled columns, then the defaults).
ItemOf(itemFrame) == Spread(ItemComputed(itemFrame), itemStateDefaults)

\* A variant of the item selection without the filter: every frame gets every item.
ItemsOfAnyFrame(itemFrames, frameNumber) ==
    [i \in DOMAIN itemFrames |-> ItemOf(itemFrames[i])]

\* itemFrames.filter(itemFrame => itemFrame.frameNumber === frameNumber), each pushed.
ItemsOf(itemFrames, frameNumber) ==
    LET relevantItemFrames ==
            SelectSeq2(itemFrames, {r \in Range(itemFrames) : r.frameNumber = frameNumber})
    IN  [i \in DOMAIN relevantItemFrames |-> ItemOf(relevantItemFrames[i])]

\* platformFrames.filter(frame => frame.platform == side).sort((a, b) => a.frame - b.frame)
SideChanges(platformFrames, side) ==
    LET kept == SelectSeq2(platformFrames,
                           {r \in Range(platformFrames) : Number(r.platform) = side})
    IN  SortStable(kept, [r \in Range(kept) |-> Number(r.frame)])

StageOf(platformFrames, frameNumber) ==
    [frameNumber |-> Number(frameNumber),
     fodLeftPlatformHeight |->
        getPlatformHeightAtFrame(SideChanges(platformFrames, LeftPlatform), frameNumber, LeftFallback),
     fodRightPlatformHeight |->
        getPlatformHeightAtFrame(SideChanges(platformFrames, RightPlatform), frameNumber, RightFallback)]

\* The body of the loop over groupedFrames.entries(): the frame pushed for one group.
FrameOf(group, itemFrames, platformFrames) ==
    [frameNumber |-> Number(group.key),
     players |-> PlayersOf(group.rows),
     items |-> ItemsOf(itemFrames, group.key),
     stage |-> StageOf(platformFrames, group.key)]

\* { settings: { ...matchSettings, playerSettings }, frames, ending: { ...gameEndingDefaults } }
ReplayDataOf(matchSettings, playerSettings, fr) ==
    [settings |-> [k \in DOMAIN matchSettings \cup {"playerSettings"} |->
                      IF k = "playerSettings" THEN playerSettings ELSE matchSettings[k]],
     frames |-> fr,
     ending |-> gameEndingDefaults]

(***************************************************************************)
(* JSON: a text is [kind |-> "json", doc |-> d], d the document it         *)
(* denotes, or Garbage, a text that is no JSON.  JSON.stringify renders    *)
(* NaN as null and leaves out a key whose value is undefined; JSON.parse   *)
(* gives the document as a value (those nulls stay null, those keys stay   *)
(* absent) and throws on a text that is no JSON.                           *)
(***************************************************************************)
JsonNumber(x) == IF x = NaN THEN Null ELSE x

JsonItem(it) ==
    [frameNumber |-> it.frameNumber, typeId |-> it.typeId, spawnId |-> it.spawnId,
     isChargedShotLaunched |-> JsonNumber(it.isChargedShotLaunched),
     damageTaken |-> it.damageTaken, expirationTimer |-> it.expirationTimer]

JsonFrame(f) ==
    [frameNumber |-> f.frameNumber, players |-> f.players,
     items |-> [i \in DOMAIN f.items |-> JsonItem(f.items[i])],
     stage |-> f.stage]

Garbage == [kind |-> "garbage"]

\* JSON.stringify of a snapshot (computed, or parsed from the cache).
JsonStringify(v) ==
    [kind |-> "json",
     doc |-> [settings |-> [v.settings EXCEPT !.stage = JsonNumber(@), !.timer = JsonNumber(@)],
              frames |-> [i \in DOMAIN v.frames |-> JsonFrame(v.frames[i])],
              ending |-> v.ending]]

\* JSON.stringify({ error: message })
JsonError(message) == [kind |-> "json", doc |-> [error |-> message]]

JsonParse(text) ==
    IF text.kind = "json" THEN [threw |-> FALSE, value |-> text.doc]
    ELSE [threw |-> TRUE, value |-> None]

(***************************************************************************)
(* The cache store (S3) and the handler's two cache helpers                *)
(***************************************************************************)
Stored(key) == {e \in cache : e.key = key}

\* What GetObject may answer: the stored object, or NoSuchKey when there is none;
\* a store that may fail can also answer any other error, or a body that is no JSON.
StoreGet(key) ==
    (IF Stored(key) = {} THEN {[kind |-> "NoSuchKey"]}
     ELSE {[kind |-> "object", body |-> e.body] : e \in Stored(key)})
    \cup (IF env.cacheFaults THEN {[kind |-> "error"], [kind |-> "object", body |-> Garbage]}
          ELSE {})

\* PutObject of body under key: last write wins.
StorePut(key, body) == (cache \ Stored(key)) \cup {[key |-> key, body |-> body]}

\* A variant of tryGetCachedReplay that lets every error but NoSuchKey escape.
tryGetCachedReplayRethrowing(answer) ==
    IF answer.kind = "object"
    THEN LET parsed == JsonParse(answer.body)
         IN  IF parsed.threw THEN [threw |-> TRUE, value |-> None]
             ELSE [threw |-> FALSE, value |-> parsed.value]
    ELSE [threw |-> answer.kind # "NoSuchKey", value |-> None]

\* A variant of tryGetCachedReplay that never finds an entry.
tryGetCachedReplayNever(answer) == [threw |-> FALSE, value |-> None]

\* tryGetCachedReplay, given the store's answer: the parsed entry, or null (None) on
\* any error.  It never throws.
tryGetCachedReplay(answer) ==
    IF answer.kind = "object"
    THEN LET parsed == JsonParse(answer.body)
         IN  IF parsed.threw THEN [threw |-> FALSE, value |-> None]
             ELSE [threw |-> FALSE, value |-> parsed.value]
    ELSE [threw |-> FALSE, value |-> None]

\* The Body that cacheReplayJson puts.
cacheReplayJson(payload) == JsonStringify(payload)

(***************************************************************************)
(* Responses                                                               *)
(***************************************************************************)
Options204 == [statusCode |-> 204, body |-> None, cors |-> TRUE]
Ok200(body) == [statusCode |-> 200, body |-> body, cors |-> TRUE]
Missing400 ==
    [statusCode |-> 400, body |-> JsonError("Missing matchId, frameStart, or frameEnd"),
     cors |-> FALSE]
\* The handler's catch block.
Caught500(message) == [statusCode |-> 500, body |-> JsonError(message), cors |-> FALSE]

\* if (!matchId || !frameStart || !frameEnd)
Rejected(r) == Falsy(r.matchId) \/ Falsy(r.frameStart) \/ Falsy(r.frameEnd)

\* runAthenaQuery's loop body after one poll answered st ("missing": no State in
\* the answer): the new `state`, and whether the loop throws, polls again or ends.
PollStep(st) ==
    LET state == IF st = "missing" THEN "FAILED" ELSE st
    IN  [state |-> state,
         next |-> IF state = "FAILED" THEN "throw"
                  ELSE IF state \in {"QUEUED", "RUNNING"} THEN "poll"
                  ELSE "fetch"]

\* A variant of the end of the compute path that does not wait for the put's outcome.
AfterPutUnawaited(putOk, data) == Ok200(JsonStringify(data))

\* The end of the compute path: await cacheReplayJson(..), then return 200; a put
\* that throws reaches the catch block.
AfterPut(putOk, data) ==
    IF putOk THEN Ok200(JsonStringify(data)) ELSE Caught500("PutObject failed")

(***************************************************************************)
(* The handler.  Invocations are the processes 1 .. MaxRequests; nothing   *)
(* serialises them, so one may start while another is suspended at an      *)
(* await.  There is one action per stretch of code between two awaits: an  *)
(* action is the answer of the call the invocation is suspended at,        *)
(* followed by the synchronous code up to the next await (or the return).  *)
(* pc names the call an invocation waits for.                              *)
(***************************************************************************)
Procs == 1 .. MaxRequests

NoResults ==
    [matchSettings |-> None, playerSettings |-> <<>>, framesResult |-> <<>>,
     itemFrames |-> <<>>, platformFrames |-> <<>>]
NoTrace ==
    [gets |-> 0, getAnswer |-> "", submits |-> 0, fetchedIn |-> <<>>,
     puts |-> 0, putOk |-> FALSE]

cacheKey == getReplayCacheKey(req.matchId, req.frameStart, req.frameEnd)

\* The loop over groupedFrames.entries(): one frame pushed per group, in Map order.
FramesOf(groups, itemFrames, platformFrames) ==
    [i \in DOMAIN groups |-> FrameOf(groups[i], itemFrames, platformFrames)]

\* The synchronous code from the last query's results to the call of cacheReplayJson:
\* grouping, the loop over the groups, replayData.
Assemble(results) ==
    ReplayDataOf(results.matchSettings, results.playerSettings,
                 FramesOf(GroupFrames(results.framesResult, <<>>),
                          results.itemFrames, results.platformFrames))

\* The invocation p returns r.
Return(p, r) ==
    /\ response' = [response EXCEPT ![p] = r]
    /\ pc' = [pc EXCEPT ![p] = "done"]

\* The invocation p goes on and is suspended at the call `at`.
Await(p, at) ==
    /\ response' = response
    /\ pc' = [pc EXCEPT ![p] = at]

\* An invocation starts: the OPTIONS answer, the validation, then GetObject is sent.
\* The data drawn tells how many invocations arrive; they are named in the order
\* they start.
Invoke(p) ==
    /\ pc[p] = "idle"
    /\ p <= env.invocations
    /\ \A o \in Procs : o < p => pc[o] # "idle"
    /\ seen' = [seen EXCEPT ![p] = {o \in Procs : pc[o] = "done"}]
    /\ IF req.method = "OPTIONS" THEN Return(p, Options204)
       ELSE IF Rejected(req) THEN Return(p, Missing400)
       ELSE Await(p, "cacheGet")
    /\ UNCHANGED <<req, db, env, cache, cached, q, qstate, polls, res, replayData, trace,
                   pureVars>>

\* The outcome of tryGetCachedReplay reaches the handler: a throw ends in the catch
\* block, an entry is answered, and a miss starts the first query.
AfterCacheRead(p, cachedReplay) ==
    IF cachedReplay.threw
    THEN Return(p, Caught500("GetObject failed")) /\ q' = q
    ELSE IF cachedReplay.value # None
    THEN Return(p, Ok200(JsonStringify(cachedReplay.value))) /\ q' = q
    ELSE Await(p, "submit") /\ q' = [q EXCEPT ![p] = 1]

\* tryGetCachedReplay: s3.send(GetObjectCommand) is answered.  An object leads to
\* the read of its body; anything else ends the helper.
CacheGet(p) ==
    /\ pc[p] = "cacheGet"
    /\ \E answer \in StoreGet(cacheKey) :
          /\ trace' = [trace EXCEPT ![p].gets = @ + 1,
                                    ![p].getAnswer = IF answer.kind = "object"
                                                     THEN answer.body.kind ELSE answer.kind]
          /\ IF answer.kind = "object"
             THEN /\ cached' = [cached EXCEPT ![p] = answer]
                  /\ Await(p, "cacheBody") /\ q' = q
             ELSE /\ cached' = cached
                  /\ AfterCacheRead(p, tryGetCachedReplay(answer))
    /\ UNCHANGED <<req, db, env, cache, seen, qstate, polls, res, replayData, pureVars>>

\* tryGetCachedReplay: obj.Body.transformToString() is answered with the body of the
\* object that GetObject delivered (a store that may fail can answer an error
\* instead), then JSON.parse and the handler's answer.
CacheBody(p) ==
    /\ pc[p] = "cacheBody"
    /\ \E read \in (IF env.cacheFaults THEN BOOLEAN ELSE {TRUE}) :
          /\ trace' = [trace EXCEPT ![p].getAnswer = IF read THEN @ ELSE "error"]
          /\ AfterCacheRead(p, tryGetCachedReplay(IF read THEN cached[p]
                                                  ELSE [kind |-> "error"]))
    /\ cached' = [cached EXCEPT ![p] = None]
    /\ UNCHANGED <<req, db, env, cache, seen, qstate, polls, res, replayData, pureVars>>

\* runAthenaQuery: athena.send(StartQueryExecutionCommand) is answered; no
\* QueryExecutionId throws, otherwise the loop is entered and the first sleep starts.
Submit(p) ==
    /\ pc[p] = "submit"
    /\ \E started \in (IF env.engineFaults THEN BOOLEAN ELSE {TRUE}) :
          /\ trace' = [trace EXCEPT ![p].submits = @ + 1]
          /\ IF started
             THEN /\ Await(p, "sleep")
                  /\ qstate' = [qstate EXCEPT ![p] = "QUEUED"]
                  /\ polls' = [polls EXCEPT ![p] = 0]
             ELSE /\ Return(p, Caught500("Query start failed"))
                  /\ qstate' = qstate /\ polls' = polls
    /\ UNCHANGED <<req, db, env, cache, cached, seen, q, res, replayData, pureVars>>

\* runAthenaQuery: the timer of `await new Promise((res) => setTimeout(res, 1000))`
\* fires and GetQueryExecutionCommand is sent.
Sleep(p) ==
    /\ pc[p] = "sleep"
    /\ Await(p, "poll")
    /\ UNCHANGED <<req, db, env, cache, cached, seen, q, qstate, polls, res, replayData,
                   trace, pureVars>>

\* The statuses the engine may answer a poll with.
PollAnswers ==
    {"SUCCEEDED"}
    \cup (IF env.engineQueues THEN {"QUEUED", "RUNNING"} ELSE {})
    \cup (IF env.engineFaults THEN {"FAILED", "CANCELLED", "missing"} ELSE {})

\* The code after the poll of p was answered st: the throw, the next sleep, or
\* GetQueryResultsCommand is sent.
AfterPoll(p, st) ==
    /\ qstate' = [qstate EXCEPT ![p] = PollStep(st).state]
    /\ IF PollStep(st).next = "throw" THEN Return(p, Caught500("Query failed"))
       ELSE IF PollStep(st).next = "poll" THEN Await(p, "sleep")
       ELSE Await(p, "fetch")

\* runAthenaQuery: athena.send(GetQueryExecutionCommand) is answered (the model lets
\* the engine answer QUEUED or RUNNING at most MaxPolls times per query).
Poll(p) ==
    /\ pc[p] = "poll"
    /\ \E st \in PollAnswers :
          /\ st \in {"QUEUED", "RUNNING"} => polls[p] < MaxPolls
          /\ polls' = [polls EXCEPT ![p] = @ + 1]
          /\ AfterPoll(p, st)
    /\ UNCHANGED <<req, db, env, cache, cached, seen, q, res, replayData, trace, pureVars>>

\* The handler's code after the q-th query returned rows, up to the next await: the
\* results are kept and the next query is started; after the fifth the snapshot is
\* assembled and cacheReplayJson sends PutObject.
AfterRows(p, rows) ==
    LET results ==
            CASE q[p] = 1 -> [res[p] EXCEPT !.matchSettings = MatchSettingsOf(rows[1])]
              [] q[p] = 2 -> [res[p] EXCEPT !.playerSettings =
                                 [i \in DOMAIN rows |-> PlayerSettingsOf(rows[i])]]
              [] q[p] = 3 -> [res[p] EXCEPT !.framesResult = rows]
              [] q[p] = 4 -> [res[p] EXCEPT !.itemFrames = rows]
              [] OTHER -> [res[p] EXCEPT !.platformFrames = rows]
    IN  /\ res' = [res EXCEPT ![p] = results]
        /\ IF q[p] = 5
           THEN /\ replayData' = [replayData EXCEPT ![p] = Assemble(results)]
                /\ Await(p, "put") /\ q' = q
           ELSE /\ replayData' = replayData
                /\ Await(p, "submit") /\ q' = [q EXCEPT ![p] = @ + 1]

\* runAthenaQuery: athena.send(GetQueryResultsCommand) is answered and the rows are
\* turned into objects; then the handler's code up to the next await.  The engine
\* gives results only for an execution that succeeded and answers an error otherwise.
Fetch(p) ==
    /\ pc[p] = "fetch"
    /\ trace' = [trace EXCEPT ![p].fetchedIn = Append(@, qstate[p])]
    /\ IF qstate[p] # "SUCCEEDED"
       THEN /\ Return(p, Caught500("GetQueryResults failed"))
            /\ UNCHANGED <<q, res, replayData>>
       ELSE \E rows \in QueryResults(q[p]) :
               IF q[p] = 1 /\ rows = <<>>
               THEN \* matchSettingsResults is undefined: reading .frameCount throws
                    /\ Return(p, Caught500("Cannot read properties of undefined"))
                    /\ UNCHANGED <<q, res, replayData>>
               ELSE AfterRows(p, rows)
    /\ UNCHANGED <<req, db, env, cache, cached, seen, qstate, polls, pureVars>>

\* cacheReplayJson: s3.send(PutObjectCommand) is answered, then the handler returns.
CachePut(p) ==
    /\ pc[p] = "put"
    /\ \E putOk \in (IF env.cacheFaults THEN BOOLEAN ELSE {TRUE}) :
          /\ trace' = [trace EXCEPT ![p].puts = @ + 1, ![p].putOk = putOk]
          /\ cache' = IF putOk THEN StorePut(cacheKey, cacheReplayJson(replayData[p]))
                      ELSE cache
          /\ Return(p, AfterPut(putOk, replayData[p]))
    /\ UNCHANGED <<req, db, env, cached, seen, q, qstate, polls, res, replayData, pureVars>>

(***************************************************************************)
(* Initial states: the tables, the request, the environment and the number *)
(* of invocations of that request are drawn from the sets below.           *)
(***************************************************************************)
Post(matchId, frameStart, frameEnd) ==
    [method |-> "POST", matchId |-> matchId, frameStart |-> frameStart, frameEnd |-> frameEnd]

\* One invocation, in an environment that never fails and whose queries succeed at
\* the first poll.
Reliable ==
    [cacheFaults |-> FALSE, engineFaults |-> FALSE, engineQueues |-> FALSE, invocations |-> 1]
\* One invocation, with a store and an engine that may or may not fail, and an engine
\* that may answer QUEUED or RUNNING.
Unreliable ==
    [cacheFaults : BOOLEAN, engineFaults : BOOLEAN, engineQueues : {TRUE}, invocations : {1}]
\* MaxRequests invocations that may overlap, in an environment that never fails.
Overlapping ==
    [cacheFaults |-> FALSE, engineFaults |-> FALSE, engineQueues |-> FALSE,
     invocations |-> MaxRequests]

SettingsRows ==
    {[match_id |-> "M1", slippi_version |-> "3.14.0", stage |-> 2, timer |-> 8,
      frame_count |-> 100]}
PlayerRows ==
    {[match_id |-> "M1", player_index |-> 0, port |-> 1, ext_char |-> 14, player_type |-> 0,
      player_tag |-> "AAA", slippi_code |-> "AAA#1"]}

FrameRow(m, f, p, nana) ==
    [match_id |-> m, frame_number |-> f, player_index |-> p, follower |-> nana,
     buttons |-> 785, airborne |-> FALSE, alive |-> TRUE]
ItemRow(m, f, id) ==
    [match_id |-> m, frame |-> f, item_type |-> 5, spawn_id |-> id, is_launched |-> 1]
\* One change per side and frame; every change has a height of its own, the left
\* change at frame 3 has the height 20.0.
PlatformRow(m, f, side) ==
    [match_id |-> m, frame |-> f, platform |-> side,
     platform_height |-> IF side = LeftPlatform /\ f = 3 THEN "20.0"
                         ELSE ToStr(30 + f + (40 * side))]

\* The rows of a frame: nobody, one player, two players, a player and its follower.
Populations ==
    {{}, {<<0, FALSE>>}, {<<0, FALSE>>, <<1, FALSE>>}, {<<0, FALSE>>, <<0, TRUE>>}}
FrameNumbers == 10 .. 12
\* Rows the frames query must leave out: another match's, and frames outside the range.
OtherFrames ==
    {FrameRow("M2", 10, 0, FALSE), FrameRow("M1", 9, 0, FALSE), FrameRow("M1", 13, 1, FALSE)}
FrameTables ==
    {other \cup UNION {{FrameRow("M1", f, e[1], e[2]) : e \in pop[f]} : f \in FrameNumbers}
     : pop \in [FrameNumbers -> Populations], other \in {{}, OtherFrames}}
OnePlayerFrames == {FrameRow("M1", f, 0, FALSE) : f \in 10 .. 12}

ItemTables ==
    {{ItemRow("M2", 10, 7)} \cup t
     : t \in SUBSET {ItemRow("M1", f, id) : f \in {9, 10, 12}, id \in {1, 2}}}
FewItems == {ItemRow("M1", 10, 1), ItemRow("M2", 11, 7)}
TwoItemsOneFrame == {ItemRow("M1", 10, 1), ItemRow("M1", 10, 2)}

PlatformTables ==
    {{PlatformRow("M2", 9, LeftPlatform)} \cup t
     : t \in SUBSET {PlatformRow("M1", f, side) : f \in {3, 8, 10, 11},
                                                  side \in {LeftPlatform, RightPlatform}}}
OneLeftChange == {PlatformRow("M1", 3, LeftPlatform)}

Tables(fr, it, pl) ==
    [settings |-> SettingsRows, players |-> PlayerRows, frames |-> fr, items |-> it,
     platforms |-> pl]

\* The requests drawn to exercise the validation and the control flow.
MatchIds == {Undefined, Str(""), Str("M1"), Str("M0")}
FrameStarts == {Undefined, Num(-1), Num(0), Num(10)}
FrameEnds == {Undefined, Num(0), Num(5), Num(11)}

InitData ==
    \/ /\ db \in {Tables(fr, FewItems, OneLeftChange) : fr \in FrameTables}
       /\ req \in {Post(Str("M1"), Num(10), Num(12)), Post(Str("M1"), Num(11), Num(12))}
       /\ env = Reliable
    \/ /\ db \in {Tables(OnePlayerFrames, it, OneLeftChange) : it \in ItemTables}
       /\ req = Post(Str("M1"), Num(10), Num(12))
       /\ env = Reliable
    \/ /\ db \in {Tables(OnePlayerFrames, FewItems, pl) : pl \in PlatformTables}
       /\ req = Post(Str("M1"), Num(10), Num(12))
       /\ env = Reliable
    \/ /\ db = Tables(OnePlayerFrames, FewItems, OneLeftChange)
       /\ req \in {Post(m, fs, fe) : m \in MatchIds, fs \in FrameStarts, fe \in FrameEnds}
                  \cup {[method |-> "OPTIONS", matchId |-> Undefined,
                         frameStart |-> Undefined, frameEnd |-> Undefined]}
       /\ env \in Unreliable
    \/ /\ db = Tables(OnePlayerFrames, TwoItemsOneFrame, OneLeftChange)
       /\ req = Post(Str("M1"), Num(10), Num(12))
       /\ env = Overlapping

InitHandler ==
    /\ cache = {}
    /\ pc = [p \in Procs |-> "idle"]
    /\ seen = [p \in Procs |-> {}]
    /\ cached = [p \in Procs |-> None]
    /\ q = [p \in Procs |-> 0]
    /\ qstate = [p \in Procs |-> ""]
    /\ polls = [p \in Procs |-> 0]
    /\ res = [p \in Procs |-> NoResults]
    /\ replayData = [p \in Procs |-> None]
    /\ response = [p \in Procs |-> None]
    /\ trace = [p \in Procs |-> NoTrace]

InitNoResolve ==
    /\ rsChanges = <<>> /\ rsFrame = "0" /\ rsDefault = "0" /\ rsHeight = Null
    /\ rsDone = FALSE

InitNoPlayer == pfRow = None /\ pfPlayer = None /\ pfDone = FALSE

InitNoKeys == ckA = None /\ ckB = None /\ ckKeys = <<>> /\ ckDone = FALSE

Init == InitData /\ InitHandler /\ InitNoResolve /\ InitNoPlayer /\ InitNoKeys

Next ==
    \E p \in Procs :
        \/ Invoke(p)
        \/ CacheGet(p)
        \/ CacheBody(p)
        \/ Submit(p)
        \/ Sleep(p)
        \/ Poll(p)
        \/ Fetch(p)
        \/ CachePut(p)

Spec == Init /\ [][Next]_vars

(***************************************************************************)
(* The handler with a query engine that is free to answer QUEUED or        *)
(* RUNNING to any number of polls.  In the poll loop the timer fires and   *)
(* the engine answers every GetQueryExecution, and the await resumes once  *)
(* its call is answered, hence the weak fairness of each invocation's      *)
(* sleep and poll steps; the poll counter stops counting at MaxPolls.      *)
(***************************************************************************)
\* runAthenaQuery: athena.send(GetQueryExecutionCommand) is answered, whatever the
\* number of polls before.
PollUncapped(p) ==
    /\ pc[p] = "poll"
    /\ \E st \in PollAnswers :
          /\ polls' = [polls EXCEPT ![p] = IF @ < MaxPolls THEN @ + 1 ELSE @]
          /\ AfterPoll(p, st)
    /\ UNCHANGED <<req, db, env, cache, cached, seen, q, res, replayData, trace, pureVars>>

InitWait ==
    /\ db = Tables(OnePlayerFrames, FewItems, OneLeftChange)
    /\ req = Post(Str("M1"), Num(10), Num(12))
    /\ env \in Unreliable
    /\ InitHandler /\ InitNoResolve /\ InitNoPlayer /\ InitNoKeys

StepWait(p) ==
    \/ Invoke(p)
    \/ CacheGet(p)
    \/ CacheBody(p)
    \/ Submit(p)
    \/ Sleep(p)
    \/ PollUncapped(p)
    \/ Fetch(p)
    \/ CachePut(p)

NextWait == \E p \in Procs : StepWait(p)

SpecWait ==
    /\ InitWait /\ [][NextWait]_vars
    /\ \A p \in Procs : WF_vars(Sleep(p)) /\ WF_vars(PollUncapped(p))

(***************************************************************************)
(* getPlatformHeightAtFrame on drawn inputs: change lists sorted by        *)
(* ascending frame (events may share a frame), a frame and a fallback.     *)
(***************************************************************************)
ChangeFrames == {5, 11}
ChangeHeights == {"20", "15"}
ChangeRows == {[frame |-> ToStr(f), platform_height |-> h] : f \in ChangeFrames, h \in ChangeHeights}
SortedChanges ==
    {s \in UNION {[1 .. n -> ChangeRows] : n \in 0 .. MaxChanges} :
        \A i \in 1 .. Len(s) - 1 : Number(s[i].frame) <= Number(s[i + 1].frame)}

InitResolve ==
    /\ db = Tables(OnePlayerFrames, FewItems, OneLeftChange)
    /\ req = Post(Str("M1"), Num(10), Num(12))
    /\ env = Reliable
    /\ InitHandler
    /\ rsChanges \in SortedChanges
    /\ rsFrame \in {ToStr(f) : f \in {4, 5, 10, 11, 12}}
    /\ rsDefault \in {"0", "99"}
    /\ rsHeight = Null
    /\ rsDone = FALSE
    /\ InitNoPlayer /\ InitNoKeys

Resolve ==
    /\ ~rsDone
    /\ rsHeight' = getPlatformHeightAtFrame(rsChanges, rsFrame, rsDefault)
    /\ rsDone' = TRUE
    /\ UNCHANGED <<handlerVars, rsChanges, rsFrame, rsDefault, playerVars, keyVars>>

NextResolve == Resolve

SpecResolve == InitResolve /\ [][NextResolve]_vars

(***************************************************************************)
(* players.push({...}) on drawn frame rows: the cells of the buttons       *)
(* column (an unsigned 16-bit mask, or no value) and of the three boolean  *)
(* columns ("true", "false", or no value).                                 *)
(***************************************************************************)
ButtonValues == {0, 1, 2, 128, 512, 785, 4096, 4403, 8191, 65535}
ButtonCells == {ToStr(n) : n \in ButtonValues} \cup {""}
BooleanCells == {"true", "false", ""}
DrawnFrameCells ==
    [match_id : {"M1"}, frame_number : {"10"}, player_index : {"0"},
     follower : BooleanCells, buttons : ButtonCells, airborne : BooleanCells,
     alive : BooleanCells]

InitPlayer ==
    /\ db = Tables(OnePlayerFrames, FewItems, OneLeftChange)
    /\ req = Post(Str("M1"), Num(10), Num(12))
    /\ env = Reliable
    /\ InitHandler /\ InitNoResolve /\ InitNoKeys
    /\ pfRow \in DrawnFrameCells
    /\ pfPlayer = None
    /\ pfDone = FALSE

PushPlayer ==
    /\ ~pfDone
    /\ pfPlayer' = PlayerOf(pfRow)
    /\ pfDone' = TRUE
    /\ UNCHANGED <<handlerVars, resolveVars, keyVars, pfRow>>

NextPlayer == PushPlayer

SpecPlayer == InitPlayer /\ [][NextPlayer]_vars

(***************************************************************************)
(* The validation and getReplayCacheKey on two drawn request bodies: a     *)
(* matchId with or without a trailing '-', frame bounds that are negative, *)
(* zero or positive numbers, or a string.                                  *)
(***************************************************************************)
KeyMatchIds == {Str(""), Str("a"), Str("a-")}
KeyFrameBounds == {Num(-1), Num(0), Num(1), Num(5), Str("1-5")}
DrawnRequests == {Post(m, fs, fe) : m \in KeyMatchIds, fs \in KeyFrameBounds, fe \in KeyFrameBounds}

\* The handler up to line 141 for one body: whether the validation lets it through,
\* and the cache key it then computes.
KeyOfRequest(r) ==
    IF Rejected(r) THEN [accepted |-> FALSE, key |-> ""]
    ELSE [accepted |-> TRUE, key |-> getReplayCacheKey(r.matchId, r.frameStart, r.frameEnd)]

InitKeys ==
    /\ db = Tables(OnePlayerFrames, FewItems, OneLeftChange)
    /\ req = Post(Str("M1"), Num(10), Num(12))
    /\ env = Reliable
    /\ InitHandler /\ InitNoResolve /\ InitNoPlayer
    /\ ckA \in DrawnRequests
    /\ ckB \in DrawnRequests
    /\ ckKeys = <<>>
    /\ ckDone = FALSE

MakeKeys ==
    /\ ~ckDone
    /\ ckKeys' = <<KeyOfRequest(ckA), KeyOfRequest(ckB)>>
    /\ ckDone' = TRUE
    /\ UNCHANGED <<handlerVars, resolveVars, playerVars, ckA, ckB>>

NextKeys == MakeKeys

SpecKeys == InitKeys /\ [][NextKeys]_vars

(***************************************************************************)
(* Properties                                                              *)
(***************************************************************************)
Computed(p) == replayData[p] # None
Max(S) == CHOOSE x \in S : \A y \in S : y <= x

\* The rows of the requested match within the requested range, as the tables hold them.
FrameRowsInRange ==
    {r \in db.frames : /\ r.match_id = Interp(req.matchId)
                       /\ req.frameStart.n <= r.frame_number
                       /\ r.frame_number <= req.frameEnd.n}

\* C1: on the compute path every emitted frame's number lies in [frameStart, frameEnd],
\* the emitted frames are strictly ascending by frameNumber (so no number twice), and
\* there are as many frames as distinct frame numbers among the match's rows in range.
C1_FramesInRangeAscendingComplete ==
    \A p \in Procs :
        Computed(p) =>
            LET fr == replayData[p].frames
            IN  /\ \A i \in DOMAIN fr :
                      req.frameStart.n <= fr[i].frameNumber /\ fr[i].frameNumber <= req.frameEnd.n
                /\ \A i, j \in DOMAIN fr : i < j => fr[i].frameNumber < fr[j].frameNumber
                /\ Len(fr) = Cardinality({r.frame_number : r \in FrameRowsInRange})

\* A snapshot of three frames built from a table that has several rows per frame and
\* rows outside the range and of another match.
C1_Witness ==
    \E p \in Procs :
        /\ pc[p] = "done" /\ response[p].statusCode = 200 /\ Computed(p)
        /\ Len(replayData[p].frames) = 3
        /\ Cardinality(FrameRowsInRange) = 6
        /\ OtherFrames \subseteq db.frames

\* C2: in every emitted frame the players are strictly ascending by playerIndex (sorted,
\* no playerIndex twice), whatever rows the frame source returned for the frame.
C2_PlayersSortedUnique ==
    \A p \in Procs :
        Computed(p) =>
            \A f \in DOMAIN replayData[p].frames :
                LET players == replayData[p].frames[f].players
                IN  \A i, j \in DOMAIN players :
                        i < j => players[i].playerIndex < players[j].playerIndex

\* The item rows the query returned to invocation p for frame number n, in the order
\* returned.
ItemRowsOfFrame(p, n) == SelectSeq(res[p].itemFrames, LAMBDA r : Number(r.frameNumber) = n)

\* C3: every emitted frame carries exactly the item rows the items query returned for
\* its frame number, in the order returned; a frame without item rows carries the empty
\* list.
C3_ItemsExactlyOfFrame ==
    \A p \in Procs :
        Computed(p) =>
            \A f \in DOMAIN replayData[p].frames :
                LET frame == replayData[p].frames[f]
                    rows == ItemRowsOfFrame(p, frame.frameNumber)
                IN  /\ Len(frame.items) = Len(rows)
                    /\ \A i \in DOMAIN rows :
                          /\ frame.items[i].frameNumber = frame.frameNumber
                          /\ frame.items[i].spawnId = Number(rows[i].spawnId)
                          /\ frame.items[i].typeId = Number(rows[i].typeId)

\* A snapshot in which one frame has two items, another has none, and the query
\* returned items of several frames.
C3_Witness ==
    \E p \in Procs :
        /\ pc[p] = "done" /\ response[p].statusCode = 200 /\ Computed(p)
        /\ Len(res[p].itemFrames) = 4
        /\ \E f, g \in DOMAIN replayData[p].frames :
              /\ Len(replayData[p].frames[f].items) = 2
              /\ replayData[p].frames[g].frameNumber = 11
              /\ replayData[p].frames[g].items = <<>>

\* The change the list holds last among those at or before currentFrame.
LastAtOrBefore(changes, currentFrame) ==
    {i \in DOMAIN changes : Number(changes[i].frame) <= Number(currentFrame)}
ExampleChanges ==
    <<[frame |-> "5", platform_height |-> "20"], [frame |-> "11", platform_height |-> "15"]>>

\* C4: for a change list sorted by ascending frame, getPlatformHeightAtFrame returns the
\* height of the last change in list order whose frame is <= currentFrame, and the
\* default height when there is none; with the changes [(5,20),(11,15)] it returns 20
\* at frame 10, 15 at frame 11 and the fallback 99 at frame 4.
C4_HeightOfLastChangeAtOrBefore ==
    rsDone =>
        /\ LET at == LastAtOrBefore(rsChanges, rsFrame)
           IN  rsHeight = IF at = {} THEN rsDefault
                          ELSE NumberDec(rsChanges[Max(at)].platform_height)
        /\ rsChanges = ExampleChanges /\ rsFrame = "10" => rsHeight = "20"
        /\ rsChanges = ExampleChanges /\ rsFrame = "11" => rsHeight = "15"
        /\ rsChanges = ExampleChanges /\ rsFrame = "4" /\ rsDefault = "99" => rsHeight = "99"

\* Two changes share frame 5 and a third comes later: at frame 10 the second wins.
C4_Witness ==
    /\ rsDone
    /\ rsChanges = <<[frame |-> "5", platform_height |-> "20"],
                     [frame |-> "5", platform_height |-> "15"],
                     [frame |-> "11", platform_height |-> "20"]>>
    /\ rsFrame = "10"
    /\ rsHeight = "15"

\* Carry-forward over the match's whole history of one side, up to frame n.
HistoryHeight(side, n, fallback) ==
    LET upTo == {r \in db.platforms : /\ r.match_id = Interp(req.matchId)
                                      /\ r.platform = side
                                      /\ r.frame <= n}
    IN  IF upTo = {} THEN fallback
        ELSE NumberDec((CHOOSE r \in upTo : \A o \in upTo : o.frame <= r.frame).platform_height)

\* C5: for every emitted frame and each side, the stage height computed from the
\* windowed changes equals the carry-forward over the side's whole history up to that
\* frame, and is the side's own fallback (left 20.0, right 27.44186047) when the side has
\* no change at or before the frame.
C5_WindowEqualsWholeHistory ==
    \A p \in Procs :
        Computed(p) =>
            \A f \in DOMAIN replayData[p].frames :
                LET frame == replayData[p].frames[f]
                IN  /\ frame.stage.frameNumber = frame.frameNumber
                    /\ frame.stage.fodLeftPlatformHeight =
                          HistoryHeight(LeftPlatform, frame.frameNumber, "20")
                    /\ frame.stage.fodRightPlatformHeight =
                          HistoryHeight(RightPlatform, frame.frameNumber, "27.44186047")

\* The match's only change is the left one at frame 3: frames 10, 11 and 12 carry its
\* height 20.0 on the left and the right fallback on the right.
C5_Witness ==
    \E p \in Procs :
        /\ pc[p] = "done" /\ response[p].statusCode = 200 /\ Computed(p)
        /\ {r \in db.platforms : r.match_id = "M1"} = OneLeftChange
        /\ [i \in DOMAIN replayData[p].frames |-> replayData[p].frames[i].stage] =
              <<[frameNumber |-> 10, fodLeftPlatformHeight |-> "20",
                 fodRightPlatformHeight |-> "27.44186047"],
                [frameNumber |-> 11, fodLeftPlatformHeight |-> "20",
                 fodRightPlatformHeight |-> "27.44186047"],
                [frameNumber |-> 12, fodLeftPlatformHeight |-> "20",
                 fodRightPlatformHeight |-> "27.44186047"]>>

\* No invocation but p and o has put an entry.
OnlyPutsOf(p, o) == \A r \in Procs \ {p, o} : trace[r].puts = 0

\* C6: with a cache store that answers correctly, of two identical requests of which
\* the second starts after the first was answered 200, the second reads the cache
\* once, submits no query, puts nothing and answers 200 with the body of an earlier 200
\* answer; when no third request wrote the entry, the first ran the five queries and
\* one put and the second answers with the very body of the first.
C6_IdenticalRequestServedFromCache ==
    \A p, o \in Procs :
        (/\ pc[p] = "done" /\ ~env.cacheFaults
         /\ o \in seen[p] /\ response[o].statusCode = 200) =>
            /\ trace[p].gets = 1 /\ trace[p].submits = 0 /\ trace[p].fetchedIn = <<>>
            /\ trace[p].puts = 0
            /\ response[p].statusCode = 200
            /\ \E r \in Procs \ {p} :
                  /\ pc[r] = "done" /\ response[r].statusCode = 200
                  /\ response[p].body = response[r].body
            /\ OnlyPutsOf(p, o) =>
                  /\ trace[o].submits = 5 /\ trace[o].puts = 1
                  /\ response[p].body = response[o].body

\* The second request of a pair is answered from the entry the first one wrote; the
\* snapshot has frames and an item, so its text holds nulls for NaN fields.
C6_Witness ==
    \E p, o \in Procs :
        /\ pc[p] = "done" /\ ~env.cacheFaults
        /\ o \in seen[p] /\ response[o].statusCode = 200
        /\ trace[p].getAnswer = "json" /\ trace[p].submits = 0 /\ trace[p].puts = 0
        /\ response[p] = response[o]
        /\ \E f \in DOMAIN response[p].body.doc.frames :
              /\ response[p].body.doc.frames[f].items # <<>>
              /\ response[p].body.doc.frames[f].items[1].isChargedShotLaunched = Null

\* C7: a 200 answer of the compute path comes only with the answer of the put of that
\* snapshot under the request's key, which succeeded and left the entry in the store;
\* a put that fails ends the request with a 500 answer that does not carry the
\* snapshot, and stores nothing.
C7_WriteBeforeReturnFailClosed ==
    [][\A p \in Procs :
          /\ (pc[p] = "put" /\ pc'[p] = "done") =>
                IF trace'[p].putOk
                THEN /\ response'[p] = Ok200(JsonStringify(replayData[p]))
                     /\ [key |-> cacheKey, body |-> response'[p].body] \in cache'
                ELSE /\ response'[p].statusCode = 500
                     /\ response'[p].body # JsonStringify(replayData[p])
                     /\ response'[p].body = JsonError("PutObject failed")
                     /\ cache' = cache
          /\ (/\ pc[p] # "done" /\ pc'[p] = "done"
              /\ response'[p].statusCode = 200 /\ trace'[p].submits > 0) =>
                pc[p] = "put" /\ trace'[p].puts = 1 /\ trace'[p].putOk]_vars

\* The snapshot was computed, the put failed, the answer is the 500.
C7_Witness ==
    \E p \in Procs :
        /\ pc[p] = "done" /\ Computed(p) /\ Len(replayData[p].frames) > 0
        /\ trace[p].puts = 1 /\ ~trace[p].putOk
        /\ response[p].statusCode = 500
        /\ Stored(cacheKey) = {}

\* C8: a cache read that fails for any reason other than a missing key (a store error
\* at GetObject or while the body is read, an entry whose body is no JSON) raises
\* nothing: the handler goes on to the first query with no answer set and nothing else
\* changed, as it does for a missing key.
C8_ReadErrorsAreMisses ==
    [][\A p \in Procs :
          (\/ pc[p] = "cacheGet" /\ trace'[p].getAnswer \in {"error", "NoSuchKey"}
           \/ /\ pc[p] = "cacheBody" /\ pc'[p] # "cacheBody"
              /\ cached[p].body = Garbage \/ trace'[p].getAnswer = "error") =>
              /\ pc'[p] = "submit" /\ q'[p] = 1
              /\ response'[p] = None
              /\ trace'[p] = [NoTrace EXCEPT !.gets = 1, !.getAnswer = trace'[p].getAnswer]
              /\ UNCHANGED <<req, db, env, cache, seen, qstate, polls, res, replayData>>]_vars

\* GetObject delivered an object whose body is no JSON, and the request computed the
\* snapshot, stored it and answered 200.
C8_Witness ==
    \E p \in Procs :
        /\ pc[p] = "done" /\ response[p].statusCode = 200
        /\ trace[p].gets = 1 /\ trace[p].getAnswer = "garbage"
        /\ trace[p].submits = 5 /\ trace[p].puts = 1
        /\ Stored(cacheKey) # {}

\* C9: GetQueryResults is sent only for an execution whose last polled status is
\* SUCCEEDED; a poll answered FAILED or CANCELLED ends the query with the engine's
\* failure and no results are fetched.
C9_FetchOnlyAfterSucceeded ==
    \A p \in Procs :
        /\ \A i \in DOMAIN trace[p].fetchedIn : trace[p].fetchedIn[i] = "SUCCEEDED"
        /\ (pc[p] = "done" /\ qstate[p] \in {"FAILED", "CANCELLED"}) =>
              response[p] = Caught500("Query failed")

\* The request contract of the specification: matchId a non-empty string, frameStart an
\* integer >= 0, frameEnd an integer >= frameStart.
InvalidRequest(r) ==
    \/ r.matchId.t # "string"
    \/ r.matchId.s = ""
    \/ r.frameStart.t # "number"
    \/ r.frameStart.n < 0
    \/ r.frameEnd.t # "number"
    \/ r.frameEnd.n < r.frameStart.n

\* C10: a request with a missing or invalid field is answered with the validation error
\* and reads no cache entry, submits no query and writes no cache entry.
C10_InvalidRequestNeverReachesEngine ==
    (req.method = "POST" /\ InvalidRequest(req)) =>
        \A p \in Procs :
            /\ trace[p].gets = 0 /\ trace[p].submits = 0 /\ trace[p].puts = 0
            /\ pc[p] = "done" => response[p] = Missing400

\* C11: a request that meets the request contract (matchId a non-empty string,
\* frameStart an integer >= 0, zero included, frameEnd an integer >= frameStart) is not
\* answered with the validation error: its handling reaches the cache lookup.
C11_ValidRequestPassesValidation ==
    (req.method = "POST" /\ ~InvalidRequest(req)) =>
        \A p \in Procs :
            pc[p] \notin {"idle", "cacheGet"} =>
                /\ response[p] # Missing400
                /\ trace[p].gets = 1

\* The settings rows the tables hold for the requested match.
SettingsRowsOfRequest == {r \in db.settings : r.match_id = Interp(req.matchId)}

\* C12: when the match-settings query succeeded with zero rows, the request ends with a
\* failure whose status sets it apart from the generic internal failure (500), and no
\* snapshot is answered or cached for it.
C12_MissingSettingsReportedNotFound ==
    \A p \in Procs :
        (/\ ~InvalidRequest(req)
         /\ pc[p] = "done" /\ q[p] = 1 /\ trace[p].fetchedIn = <<"SUCCEEDED">>
         /\ SettingsRowsOfRequest = {}) =>
            /\ response[p].statusCode \notin {200, 500}
            /\ Stored(cacheKey) = {}

\* The button attributes that are true in a view.
Pressed(view) == {k \in DOMAIN view : view[k]}
\* Whether the bit of value mask (a power of two) is set in n.
BitSet(n, mask) == (n \div mask) % 2 = 1

\* C13 (as the code decodes): in both views each button attribute is true exactly when
\* its bit of the table is set in the mask; 0x1133 (4403) is the bits 0x0001, 0x0002,
\* 0x0010, 0x0020, 0x0100 and 0x1000, so it yields dPadLeft, dPadRight, z,
\* rTriggerDigital, a and start true, and b, x, y and every other attribute false.
C13_DecodeByBitTable ==
    pfDone =>
        LET n == ToInt32(pfRow.buttons)
            physical == pfPlayer.inputs.physical
            processed == pfPlayer.inputs.processed
        IN  /\ \A k \in DOMAIN PhysicalMasks : physical[k] = BitSet(n, PhysicalMasks[k])
            /\ \A k \in DOMAIN ProcessedMasks : processed[k] = BitSet(n, ProcessedMasks[k])
            /\ pfRow.buttons = "4403" =>
                  /\ Pressed(physical) =
                        {"dPadLeft", "dPadRight", "z", "rTriggerDigital", "a", "start"}
                  /\ Pressed(processed) = Pressed(physical)

\* The row with the mask 0x1133 was decoded: start and dPadRight are set, b is not.
C13_Witness ==
    /\ pfDone /\ pfRow.buttons = "4403"
    /\ pfPlayer.inputs.physical.start /\ pfPlayer.inputs.processed.dPadRight
    /\ ~pfPlayer.inputs.physical.b

\* C13 (as stated): decoding 0x1133 yields dPadLeft, z, a and b true, start false and
\* every other button attribute false, in both views.
C13_AsStated ==
    (pfDone /\ pfRow.buttons = "4403") =>
        /\ Pressed(pfPlayer.inputs.physical) = {"dPadLeft", "z", "a", "b"}
        /\ Pressed(pfPlayer.inputs.processed) = {"dPadLeft", "z", "a", "b"}

\* C17: each boolean attribute derived from a string cell is the outcome of comparing
\* the cell with "true": isNana is (follower = "true"), isGrounded is the negation of
\* (airborne = "true") and isDead the negation of (alive = "true"), so the cells "true"
\* and "false" give opposite values.
C17_BooleansFromLiteralTrue ==
    pfDone =>
        /\ pfPlayer.inputs.isNana = (pfRow.follower = "true")
        /\ pfPlayer.state.isNana = (pfRow.follower = "true")
        /\ pfPlayer.state.isGrounded = ~(pfRow.airborne = "true")
        /\ pfPlayer.state.isDead = ~(pfRow.alive = "true")

\* merged keeps the value computed has under every key of computed.
KeepsComputed(merged, computed) == \A k \in DOMAIN computed : merged[k] = computed[k]

\* C14: the key set of each defaults record is disjoint from the keys of the record it
\* is spread over (match settings, player settings, player state, item), and in every
\* assembled snapshot each settings record, player state and item holds, under every
\* queried or computed key, the queried or computed value and not a default.
C14_DefaultsFillAbsentKeysOnly ==
    /\ DOMAIN matchSettingsDefaults \cap MatchSettingsKeys = {}
    /\ DOMAIN playerSettingsDefaults \cap PlayerSettingsKeys = {}
    /\ DOMAIN playerStateDefaults \cap PlayerStateKeys = {}
    /\ DOMAIN itemStateDefaults \cap ItemKeys = {}
    /\ \A p \in Procs :
          Computed(p) =>
              /\ \E rows \in MatchSettingsQuery(req.matchId) :
                    /\ DOMAIN MatchSettingsComputed(rows[1]) = MatchSettingsKeys
                    /\ KeepsComputed(replayData[p].settings, MatchSettingsComputed(rows[1]))
              /\ \E rows \in PlayerSettingsQuery(req.matchId) :
                    /\ Len(rows) = Len(replayData[p].settings.playerSettings)
                    /\ \A i \in DOMAIN rows :
                          /\ DOMAIN PlayerSettingsComputed(rows[i]) = PlayerSettingsKeys
                          /\ KeepsComputed(replayData[p].settings.playerSettings[i],
                                           PlayerSettingsComputed(rows[i]))
              /\ \A f \in DOMAIN replayData[p].frames :
                    LET frame == replayData[p].frames[f]
                        group == GroupFrames(res[p].framesResult, <<>>)[f].rows
                        items == ItemRowsOfFrame(p, frame.frameNumber)
                    IN  /\ \A i \in DOMAIN frame.players :
                              \E r \in DOMAIN group :
                                  /\ DOMAIN PlayerStateComputed(group[r]) \subseteq PlayerStateKeys
                                  /\ KeepsComputed(frame.players[i].state,
                                                   PlayerStateComputed(group[r]))
                        /\ \A i \in DOMAIN frame.items :
                              /\ DOMAIN ItemComputed(items[i]) \subseteq ItemKeys
                              /\ KeepsComputed(frame.items[i], ItemComputed(items[i]))

\* A snapshot was assembled whose settings, player settings, player states and items
\* carry both queried values and defaults.
C14_Witness ==
    \E p \in Procs :
        /\ pc[p] = "done" /\ response[p].statusCode = 200 /\ Computed(p)
        /\ replayData[p].settings.frameCount = 100 /\ replayData[p].settings.damageRatio = 1
        /\ replayData[p].settings.playerSettings[1].port = 1
        /\ replayData[p].settings.playerSettings[1].startStocks = 4
        /\ \E f \in DOMAIN replayData[p].frames :
              /\ Len(replayData[p].frames[f].players) = 2
              /\ replayData[p].frames[f].players[2].state.isOffscreen = FALSE
              /\ Len(replayData[p].frames[f].items) = 1
              /\ replayData[p].frames[f].items[1].spawnId = 1
              /\ replayData[p].frames[f].items[1].expirationTimer = 0

\* C15: whatever the engine answers, the status wait of a query ends: a request that is
\* in the poll loop (sleeping or polling) eventually leaves it, towards the fetch of the
\* results or with an error.
C15_StatusWaitEnds ==
    \A p \in Procs : (pc[p] \in {"sleep", "poll"}) ~> (pc[p] \in {"fetch", "done"})

\* C16: a cache entry, once written, stays as it is: no step of any request removes an
\* entry or replaces its content, so a request that recomputes a snapshot whose entry
\* exists (after a failed read of it, or because it started before the entry was
\* written) puts the same content again.
C16_CacheEntriesNeverChange == [][\A e \in cache : e \in cache']_vars

\* C18: two requests that the validation accepts and that differ in matchId, frameStart
\* or frameEnd get different cache keys.
C18_CacheKeyInjective ==
    (ckDone /\ ckKeys[1].accepted /\ ckKeys[2].accepted /\ ckA # ckB) =>
        ckKeys[1].key # ckKeys[2].key

====
